---------------------------- MODULE Spec2Model ----------------------------
(***************************************************************************)
(* A model of the schedule reconciliation engine of src/app.py:            *)
(* parse_schedule_days, safe_parse_date, count_workdays, month_bounds,     *)
(* parse_sheet_month_year, find_header_row_and_map, ensure_column,         *)
(* build_brazil_holidays and process_workbook.                             *)
(*                                                                         *)
(* Texts that the code inspects character by character (schedule cells,    *)
(* start-date cells, sheet names) are sequences of one-character strings.  *)
(* Header texts are strings.  Dates are proleptic Gregorian ordinals, as   *)
(* datetime.date.toordinal() gives them.                                   *)
(***************************************************************************)
EXTENDS Integers, Sequences, FiniteSets, TLC

VARIABLES
    \* process_workbook: its inputs and locals
    wb,              \* the workbook: a sequence of sheets, in wb.sheetnames order
    sheet_names,     \* the sheet_names argument (<<>> stands for None / empty)
    extra_holidays,  \* the extra_holidays argument, a set of dates
    pc,              \* position in process_workbook
    target_sheets, years, holiday_set, updated_any, logs,
    si,              \* index into target_sheets of the sheet loop
    header_row, header_map, cols,
    processed, errors,
    ri,              \* index of the current data row (1 = the row below the header)
    \* verification bookkeeping
    wb0,             \* the workbook as it was given to the first run
    rowlog,          \* what the row loop did with every row it evaluated
    run, wb1, logs1, \* run number; workbook and log at the end of the first run
    \* calls of the pure functions
    p_words, p_pc, p_out,         \* parse_schedule_days(Join(p_words))
    c_args, c_pc, c_out           \* count_workdays(c_args...)

wbvars == <<wb, sheet_names, extra_holidays, pc, target_sheets, years, holiday_set,
            updated_any, logs, si, header_row, header_map, cols, processed, errors,
            ri, wb0, rowlog, run, wb1, logs1>>
pvars == <<p_words, p_pc, p_out>>
cvars == <<c_args, c_pc, c_out>>
vars == <<wbvars, pvars, cvars>>

----------------------------------------------------------------------------
(* Bounds of the model *)

\* most data rows below a sheet's header row
MaxRows == 2
\* most sheets in a workbook of several sheets
MaxSheets == 2
\* most words after the leading words of a schedule text
MaxWords == 2
\* count_workdays is called on dates at most this many days after WindowBase
MaxSpan == 6

----------------------------------------------------------------------------
(* Calendar: datetime.date and calendar.monthrange *)

IsLeap(y) == (y % 4 = 0 /\ y % 100 # 0) \/ y % 400 = 0

\* calendar.monthrange(year, month)[1]
monthrange(y, m) ==
    CASE m \in {1, 3, 5, 7, 8, 10, 12} -> 31
      [] m \in {4, 6, 9, 11} -> 30
      [] OTHER -> IF IsLeap(y) THEN 29 ELSE 28

DaysBeforeMonth(y, m) ==
    <<0, 31, 59, 90, 120, 151, 181, 212, 243, 273, 304, 334>>[m]
        + (IF m > 2 /\ IsLeap(y) THEN 1 ELSE 0)

DaysBeforeYear(y) ==
    LET p == y - 1 IN p * 365 + (p \div 4) - (p \div 100) + (p \div 400)

\* dt.date(y, m, d), as its ordinal
date(y, m, d) == DaysBeforeYear(y) + DaysBeforeMonth(y, m) + d

\* whether dt.date(y, m, d) exists
ValidDate(y, m, d) == y \in 1..9999 /\ m \in 1..12 /\ d \in 1..monthrange(y, m)

\* d.weekday(): 0 = Monday ... 6 = Sunday
weekday(o) == (o + 6) % 7

\* d.year, d.month, d.day
YearOf(o) ==
    LET e == ((o * 400) \div 146097) + 1
    IN  CHOOSE y \in (e - 1)..(e + 1) : date(y, 1, 1) <= o /\ o < date(y + 1, 1, 1)
MonthOf(o) ==
    LET y == YearOf(o)
    IN  CHOOSE m \in 1..12 : date(y, m, 1) <= o /\ o <= date(y, m, monthrange(y, m))
DayOf(o) == o - date(YearOf(o), MonthOf(o), 1) + 1

\* month_bounds(year, month): the first and the last day of the month
month_bounds(y, m) == <<date(y, m, 1), date(y, m, monthrange(y, m))>>

----------------------------------------------------------------------------
(* Texts *)

LowerAlpha == <<"a", "b", "c", "d", "e", "f", "g", "h", "i", "j", "k", "l", "m", "n",
                "o", "p", "q", "r", "s", "t", "u", "v", "w", "x", "y", "z", "á">>
UpperAlpha == <<"A", "B", "C", "D", "E", "F", "G", "H", "I", "J", "K", "L", "M", "N",
                "O", "P", "Q", "R", "S", "T", "U", "V", "W", "X", "Y", "Z", "Á">>

UpperChar(c) ==
    IF \E i \in 1..Len(LowerAlpha) : LowerAlpha[i] = c
    THEN UpperAlpha[CHOOSE i \in 1..Len(LowerAlpha) : LowerAlpha[i] = c]
    ELSE c

\* str.upper()
Upper(s) == [i \in 1..Len(s) |-> UpperChar(s[i])]

\* sub in s
Contains(s, sub) ==
    \E i \in 1..(Len(s) - Len(sub) + 1) : SubSeq(s, i, i + Len(sub) - 1) = sub

IsSpace(c) == c = " "

\* s.strip() == ""
IsBlankText(s) == \A i \in 1..Len(s) : IsSpace(s[i])

\* str.strip()
Strip(s) ==
    IF IsBlankText(s) THEN <<>>
    ELSE LET a == CHOOSE i \in 1..Len(s) :
                      ~IsSpace(s[i]) /\ \A j \in 1..(i - 1) : IsSpace(s[j])
             b == CHOOSE i \in 1..Len(s) :
                      ~IsSpace(s[i]) /\ \A j \in (i + 1)..Len(s) : IsSpace(s[j])
         IN  SubSeq(s, a, b)

Digits == <<"0", "1", "2", "3", "4", "5", "6", "7", "8", "9">>
IsDigit(c) == \E i \in 1..10 : Digits[i] = c
DigitVal(c) == (CHOOSE i \in 1..10 : Digits[i] = c) - 1

\* int(s) of a text of digits
RECURSIVE IntOf(_)
IntOf(s) ==
    IF s = <<>> THEN 0
    ELSE 10 * IntOf(SubSeq(s, 1, Len(s) - 1)) + DigitVal(s[Len(s)])

AllDigits(s) == \A i \in 1..Len(s) : IsDigit(s[i])

\* the words of a text joined by single spaces
RECURSIVE Join(_)
Join(ws) ==
    IF ws = <<>> THEN <<>>
    ELSE IF Len(ws) = 1 THEN ws[1]
    ELSE ws[1] \o <<" ">> \o Join(Tail(ws))

----------------------------------------------------------------------------
(* Cell values: None, a text, a date, a datetime, a number *)

None == [t |-> "none", s |-> <<>>, n |-> 0]
Text(s) == [t |-> "str", s |-> s, n |-> 0]
DateV(o) == [t |-> "date", s |-> <<>>, n |-> o]
DateTimeV(o) == [t |-> "datetime", s |-> <<>>, n |-> o]
IntV(n) == [t |-> "int", s |-> <<>>, n |-> n]

\* str(value) of a number, a date or a datetime holds digits and punctuation only
NoLetters == <<"0">>

\* str(value)
StrOf(v) == IF v.t = "str" THEN v.s ELSE NoLetters

----------------------------------------------------------------------------
(* parse_schedule_days *)

tSEG == <<"S", "E", "G">>
tTER == <<"T", "E", "R">>
tQUA == <<"Q", "U", "A">>
tQUI == <<"Q", "U", "I">>
tSEX == <<"S", "E", "X">>
tSAB == <<"S", "A", "B">>
tSAB2 == <<"S", "Á", "B">>
tDOM == <<"D", "O", "M">>
tFOLGA == <<"F", "O", "L", "G", "A">>

\* the alternatives of DOW_TOKENS_RE, in its order
DOW_TOKENS == <<tSEG, tTER, tQUA, tQUI, tSEX, tSAB, tSAB2, tDOM>>

IsDowToken(t) == \E k \in 1..Len(DOW_TOKENS) : DOW_TOKENS[k] = t

\* PT_DOW
PT_DOW(t) ==
    CASE t = tSEG -> 0
      [] t = tTER -> 1
      [] t = tQUA -> 2
      [] t = tQUI -> 3
      [] t = tSEX -> 4
      [] t = tSAB -> 5
      [] t = tSAB2 -> 5
      [] t = tDOM -> 6

\* DOW_TOKENS_RE.findall(s)[from position i on]: a left-to-right scan for
\* non-overlapping matches, letter case ignored
RECURSIVE FindAllFrom(_, _)
FindAllFrom(s, i) ==
    IF i + 2 > Len(s) THEN <<>>
    ELSE IF IsDowToken(Upper(SubSeq(s, i, i + 2)))
         THEN <<SubSeq(s, i, i + 2)>> \o FindAllFrom(s, i + 3)
         ELSE FindAllFrom(s, i + 1)

findall(s) == FindAllFrom(s, 1)

\* tok = [t.upper() ...]; tok = ["SAB" if t == "SÁB" else t ...]
normalize_tok(t) == IF Upper(t) = tSAB2 THEN tSAB ELSE Upper(t)

\* the result of parse_schedule_days: None, or a set of weekdays
NoDays == [ok |-> FALSE, days |-> {}]
Days(S) == [ok |-> TRUE, days |-> S]

\* a plausible slip: only the first token found is taken as a day off
folga_days_first(tok) == (0..6) \ {PT_DOW(tok[1])}

\* set(range(7)) - {PT_DOW[t] for t in tok if t in PT_DOW}
folga_days(tok) == (0..6) \ {PT_DOW(tok[k]) : k \in 1..Len(tok)}

\* a plausible slip: no wraparound
range_days_nowrap(a, b) == a..b

\* set(range(a, b + 1)) if a <= b, else range(a, 7) + range(0, b + 1)
range_days(a, b) == IF a <= b THEN a..b ELSE (a..6) \cup (0..b)

parse_schedule_days(v) ==
    IF v.t = "none" THEN NoDays
    ELSE LET s == Upper(StrOf(v))
             tokens == findall(s)
             tok == [k \in 1..Len(tokens) |-> normalize_tok(tokens[k])]
         IN  IF tokens = <<>> THEN NoDays
             ELSE IF Contains(s, tFOLGA) THEN Days(folga_days(tok))
             ELSE IF Contains(s, <<" ", "A", " ">>) /\ Len(tok) >= 2
                  THEN Days(range_days(PT_DOW(tok[1]), PT_DOW(tok[2])))
             ELSE LET days == {PT_DOW(tok[k]) : k \in 1..Len(tok)}
                  IN  IF days # {} THEN Days(days) ELSE NoDays

----------------------------------------------------------------------------
(* count_workdays *)

\* the while loop of count_workdays, from date d with cnt counted so far
RECURSIVE count_loop(_, _, _, _, _)
count_loop(d, end, working_days, holidays, cnt) ==
    IF d <= end
    THEN count_loop(d + 1, end, working_days, holidays,
                    IF weekday(d) \in working_days /\ d \notin holidays
                    THEN cnt + 1 ELSE cnt)
    ELSE cnt

\* a plausible slip: the end date is not counted
count_workdays_exclusive(start, end, working_days, holidays) ==
    IF start > end THEN 0 ELSE count_loop(start, end - 1, working_days, holidays, 0)

count_workdays(start, end, working_days, holidays) ==
    IF start > end THEN 0 ELSE count_loop(start, end, working_days, holidays, 0)

----------------------------------------------------------------------------
(* Sheet names, header texts *)

\* parse_sheet_month_year(sheet_name): the regular expression
\* ^\s*(\d{1,2})\.(\d{4})\s*$ and the range check of the month
NoYM == [ok |-> FALSE, y |-> 0, m |-> 0]
parse_sheet_month_year(sheet_name) ==
    LET s == Strip(sheet_name)
        fits(p) == /\ Len(s) = p + 4
                   /\ s[p] = "."
                   /\ AllDigits(SubSeq(s, 1, p - 1))
                   /\ AllDigits(SubSeq(s, p + 1, p + 4))
    IN  IF \E p \in {2, 3} : fits(p)
        THEN LET p == CHOOSE q \in {2, 3} : fits(q)
                 month == IntOf(SubSeq(s, 1, p - 1))
                 year == IntOf(SubSeq(s, p + 1, p + 4))
             IN  IF month >= 1 /\ month <= 12
                 THEN [ok |-> TRUE, y |-> year, m |-> month]
                 ELSE NoYM
        ELSE NoYM

DigitStr(d) == CASE d = 0 -> "0" [] d = 1 -> "1" [] d = 2 -> "2" [] d = 3 -> "3"
                 [] d = 4 -> "4" [] d = 5 -> "5" [] d = 6 -> "6" [] d = 7 -> "7"
                 [] d = 8 -> "8" [] d = 9 -> "9"

\* f"{n}"
RECURSIVE DecStr(_)
DecStr(n) == IF n < 10 THEN DigitStr(n) ELSE DecStr(n \div 10) \o DigitStr(n % 10)

\* f"{m:02d}"
Fmt02(m) == IF m < 10 THEN "0" \o DigitStr(m) ELSE DecStr(m)

\* f"{m:02d}.{y}"
MonthTag(m, y) == Fmt02(m) \o "." \o DecStr(y)

H_NEW == "ESCALA NOVA"
H_START == "INÍCIO ESCALA NOVA"
old_scale_header(m, y) == "ESCALA " \o MonthTag(m, y)
h_old(m, y) == "DIAS ÚTEIS " \o MonthTag(m, y) \o " (ESCALA ANTIGA)"
h_new(m, y) == "DIAS ÚTEIS " \o MonthTag(m, y) \o " (ESCALA NOVA)"
h_due(m, y) == "DIAS DEVIDOS " \o MonthTag(m, y)
h_total == "TOTAL DIAS DEVIDOS"

\* header cells of the model that are not already stripped upper-case texts
RAW_NEW == " Escala Nova"
RAW_TOTAL == "Total dias devidos "

\* str(v).strip().upper() of a header text: every other header text of the
\* model is upper-case without surrounding blanks ("" is an empty cell)
NormHeader(raw) ==
    CASE raw = RAW_NEW -> H_NEW
      [] raw = RAW_TOTAL -> h_total
      [] OTHER -> raw

\* the month after (m, y): lines 265-269
next_month(m, y) == IF m = 12 THEN [m |-> 1, y |-> y + 1] ELSE [m |-> m + 1, y |-> y]

----------------------------------------------------------------------------
(* Worksheets.  A sheet is                                                 *)
(*   name   its name, a text                                               *)
(*   hrow   the index of the row that holds the header texts; the rows     *)
(*          above it hold neither sentinel header                          *)
(*   header the texts of that row, one per column ("" = empty cell)        *)
(*   rows   the rows below it, each a sequence of cell values, one per     *)
(*          column                                                         *)

\* the scan of find_header_row_and_map covers range(1, 51)
HeaderScanRows == 50

max_column(ws) == Len(ws.header)
max_row(ws) == ws.hrow + Len(ws.rows)

normalized(ws) == [c \in 1..max_column(ws) |-> NormHeader(ws.header[c])]

\* whether find_header_row_and_map finds a header row (else it raises)
header_found(ws) ==
    /\ ws.hrow <= HeaderScanRows
    /\ \E c \in 1..max_column(ws) : normalized(ws)[c] = H_START
    /\ \E c \in 1..max_column(ws) : normalized(ws)[c] = H_NEW

\* the map find_header_row_and_map returns: a later column of the same name
\* replaces an earlier one
header_map_of(ws) ==
    LET n == normalized(ws)
        keys == {n[c] : c \in 1..max_column(ws)} \ {""}
    IN  [k \in keys |->
            CHOOSE c \in 1..max_column(ws) :
                n[c] = k /\ \A c2 \in 1..max_column(ws) : n[c2] = k => c2 <= c]

\* ensure_column with a slip: the new header is written over the last column
ensure_column_overwrite(ws, hmap, header_name) ==
    LET key == NormHeader(header_name)
    IN  IF key \in DOMAIN hmap
        THEN [ws |-> ws, map |-> hmap, col |-> hmap[key]]
        ELSE LET new_col == max_column(ws)
             IN  [ws |-> [ws EXCEPT !.header[new_col] = header_name],
                  map |-> [k \in DOMAIN hmap \cup {key} |->
                              IF k = key THEN new_col ELSE hmap[k]],
                  col |-> new_col]

\* ensure_column with a slip: the header map is not consulted
ensure_column_always(ws, hmap, header_name) ==
    LET key == NormHeader(header_name)
        new_col == max_column(ws) + 1
    IN  [ws |-> [ws EXCEPT !.header = Append(@, header_name),
                           !.rows = [r \in 1..Len(@) |-> Append(@[r], None)]],
         map |-> [k \in DOMAIN hmap \cup {key} |-> IF k = key THEN new_col ELSE hmap[k]],
         col |-> new_col]

\* ensure_column(ws, header_row, header_map, header_name): the sheet and the
\* map after the call, and the column returned.  Writing the header cell of
\* column max_column + 1 widens the grid by one column of empty cells.
ensure_column(ws, hmap, header_name) ==
    LET key == NormHeader(header_name)
    IN  IF key \in DOMAIN hmap
        THEN [ws |-> ws, map |-> hmap, col |-> hmap[key]]
        ELSE LET new_col == max_column(ws) + 1
             IN  [ws |-> [ws EXCEPT !.header = Append(@, header_name),
                                    !.rows = [r \in 1..Len(@) |-> Append(@[r], None)]],
                  map |-> [k \in DOMAIN hmap \cup {key} |->
                              IF k = key THEN new_col ELSE hmap[k]],
                  col |-> new_col]

----------------------------------------------------------------------------
(* Holidays *)

\* Easter Sunday of year y (the Gregorian computus), as holidays.Brazil has it
Easter(y) ==
    LET a == y % 19
        b == y \div 100
        c == y % 100
        d == b \div 4
        e == b % 4
        f == (b + 8) \div 25
        g == (b - f + 1) \div 3
        h == (19 * a + b - d - g + 15) % 30
        i == c \div 4
        k == c % 4
        l == (32 + 2 * e + 2 * i - h - k) % 7
        m == (a + 11 * h + 22 * l) \div 451
        month == (h + l - 7 * m + 114) \div 31
        day == ((h + l - 7 * m + 114) % 31) + 1
    IN  date(y, month, day)

\* the national holidays of Brazil in year y
BrazilHolidays(y) ==
    {date(y, 1, 1), Easter(y) - 2, date(y, 4, 21), date(y, 5, 1), date(y, 9, 7),
     date(y, 10, 12), date(y, 11, 2), date(y, 11, 15), date(y, 12, 25)}
        \cup (IF y >= 2024 THEN {date(y, 11, 20)} ELSE {})

\* build_brazil_holidays(years)
build_brazil_holidays(ys) == UNION {BrazilHolidays(y) : y \in ys}

----------------------------------------------------------------------------
(* safe_parse_date *)

NoDate == [ok |-> FALSE, d |-> 0]
ADate(o) == [ok |-> TRUE, d |-> o]

HasDigit(s) == \E i \in 1..Len(s) : IsDigit(s[i])

IsDMY(s) ==
    /\ Len(s) = 10
    /\ s[3] = "/" /\ s[6] = "/"
    /\ AllDigits(SubSeq(s, 1, 2)) /\ AllDigits(SubSeq(s, 4, 5))
    /\ AllDigits(SubSeq(s, 7, 10))

\* date_parser.parse(s, dayfirst=True).date(), or None where it raises, on the
\* texts of the model: DD/MM/YYYY, or a text with no digit that is no date word
date_parser_parse(s) ==
    CASE IsDMY(s) ->
            LET d == IntOf(SubSeq(s, 1, 2))
                m == IntOf(SubSeq(s, 4, 5))
                y == IntOf(SubSeq(s, 7, 10))
            IN  IF ValidDate(y, m, d) THEN ADate(date(y, m, d)) ELSE NoDate
      [] ~IsDMY(s) /\ ~HasDigit(s) -> NoDate

safe_parse_date(v) ==
    CASE v.t = "none" -> NoDate
      [] v.t = "str" /\ IsBlankText(v.s) -> NoDate
      [] v.t = "datetime" -> ADate(v.n)
      [] v.t = "date" -> ADate(v.n)
      [] v.t = "str" /\ ~IsBlankText(v.s) -> date_parser_parse(Strip(v.s))

----------------------------------------------------------------------------
(* process_workbook *)

NoCols == [old |-> 0, new |-> 0, start |-> 0, old_1 |-> 0, new_1 |-> 0, due_1 |-> 0,
           old_2 |-> 0, new_2 |-> 0, due_2 |-> 0, total |-> 0]
NoMap == [k \in {} |-> 0]

sheetnames == [i \in 1..Len(wb) |-> wb[i].name]
InWorkbook(sname) == \E i \in 1..Len(wb) : wb[i].name = sname
\* wb[sname]: the index of the sheet of that name
SheetIdx(sname) == CHOOSE i \in 1..Len(wb) : wb[i].name = sname

sname == target_sheets[si]
\* sheet_ym[sname], or not ok when sname is not in sheet_ym
sheet_ym == parse_sheet_month_year(sname)
ws == wb[SheetIdx(sname)]

LogLine(kind, name, p, e) == [kind |-> kind, sheet |-> name, processed |-> p, errors |-> e]

Start_when == pc = "start"

\* lines 215-236: the target sheets, the years and the holiday set
Start ==
    /\ Start_when
    /\ LET targets == IF sheet_names # <<>> THEN sheet_names ELSE sheetnames
           ys == {parse_sheet_month_year(targets[i]).y :
                      i \in {j \in 1..Len(targets) : parse_sheet_month_year(targets[j]).ok}}
                    \cup {YearOf(d) : d \in extra_holidays}
           br_holidays == IF ys # {} THEN build_brazil_holidays(ys) ELSE {}
       IN  /\ target_sheets' = targets
           /\ years' = ys
           /\ holiday_set' = br_holidays \cup extra_holidays
    /\ logs' = <<>>
    /\ updated_any' = FALSE
    /\ si' = 1
    /\ pc' = "sheet"
    /\ UNCHANGED <<wb, sheet_names, extra_holidays, header_row, header_map, cols,
                   processed, errors, ri, wb0, rowlog, run, wb1, logs1, pvars, cvars>>

NextSheet ==
    /\ si' = si + 1
    /\ pc' = "sheet"
    /\ UNCHANGED <<sheet_names, extra_holidays, target_sheets, years, holiday_set,
                   header_row, header_map, cols, processed, errors, ri, wb0, rowlog,
                   run, wb1, logs1, pvars, cvars>>

AtSheet == pc = "sheet" /\ si <= Len(target_sheets)

\* the branches of the sheet loop's body, lines 239-259
SheetMissing_when == AtSheet /\ ~InWorkbook(sname)
SheetIgnored_when == AtSheet /\ InWorkbook(sname) /\ ~sheet_ym.ok
HeaderNotFound_when ==
    AtSheet /\ InWorkbook(sname) /\ sheet_ym.ok /\ ~header_found(ws)
HasHeader == AtSheet /\ InWorkbook(sname) /\ sheet_ym.ok /\ header_found(ws)
old_key == NormHeader(old_scale_header(sheet_ym.m, sheet_ym.y))
OldColumnMissing_when == HasHeader /\ old_key \notin DOMAIN header_map_of(ws)
SheetOpen_when == HasHeader /\ old_key \in DOMAIN header_map_of(ws)

\* lines 239-240: a target that is no sheet of the workbook
SheetMissing ==
    /\ SheetMissing_when
    /\ NextSheet
    /\ UNCHANGED <<wb, logs, updated_any>>

\* lines 241-243: a sheet whose name is not MM.YYYY
SheetIgnored ==
    /\ SheetIgnored_when
    /\ logs' = Append(logs, LogLine("IGNORADO", sname, 0, 0))
    /\ NextSheet
    /\ UNCHANGED <<wb, updated_any>>

\* the exception of find_header_row_and_map is not caught: the run ends there
HeaderNotFound_uncaught ==
    /\ HeaderNotFound_when
    /\ pc' = "done"
    /\ UNCHANGED <<wb, sheet_names, extra_holidays, target_sheets, years, holiday_set,
                   updated_any, logs, si, header_row, header_map, cols, processed,
                   errors, ri, wb0, rowlog, run, wb1, logs1, pvars, cvars>>

\* lines 245-252: find_header_row_and_map raises
HeaderNotFound ==
    /\ HeaderNotFound_when
    /\ logs' = Append(logs, LogLine("ERRO_CABECALHO", sname, 0, 0))
    /\ NextSheet
    /\ UNCHANGED <<wb, updated_any>>

\* lines 254-259: the column of the old schedule is missing
OldColumnMissing ==
    /\ OldColumnMissing_when
    /\ logs' = Append(logs, LogLine("ERRO_COLUNA", sname, 0, 0))
    /\ NextSheet
    /\ UNCHANGED <<wb, updated_any>>

\* lines 261-294: the input columns, the seven ensure_column calls, the counters
SheetOpen ==
    /\ SheetOpen_when
    /\ LET m1 == sheet_ym.m
           y1 == sheet_ym.y
           m2 == next_month(m1, y1).m
           y2 == next_month(m1, y1).y
           hm == header_map_of(ws)
       IN  /\ \E e1 \in {ensure_column(ws, hm, h_old(m1, y1))} :
              \E e2 \in {ensure_column(e1.ws, e1.map, h_new(m1, y1))} :
              \E e3 \in {ensure_column(e2.ws, e2.map, h_due(m1, y1))} :
              \E e4 \in {ensure_column(e3.ws, e3.map, h_old(m2, y2))} :
              \E e5 \in {ensure_column(e4.ws, e4.map, h_new(m2, y2))} :
              \E e6 \in {ensure_column(e5.ws, e5.map, h_due(m2, y2))} :
              \E e7 \in {ensure_column(e6.ws, e6.map, h_total)} :
                  /\ wb' = [wb EXCEPT ![SheetIdx(sname)] = e7.ws]
                  /\ header_map' = e7.map
                  /\ cols' = [old |-> hm[old_key], new |-> hm[H_NEW], start |-> hm[H_START],
                              old_1 |-> e1.col, new_1 |-> e2.col, due_1 |-> e3.col,
                              old_2 |-> e4.col, new_2 |-> e5.col, due_2 |-> e6.col,
                              total |-> e7.col]
    /\ header_row' = ws.hrow
    /\ processed' = 0
    /\ errors' = 0
    /\ ri' = 1
    /\ pc' = "row"
    /\ UNCHANGED <<sheet_names, extra_holidays, target_sheets, years, holiday_set,
                   updated_any, logs, si, wb0, rowlog, run, wb1, logs1, pvars, cvars>>

\* the row loop: range(header_row + 1, last_row + 1)
AtRow == pc = "row" /\ header_row + ri <= max_row(ws)
row == ws.rows[ri]
v_old == row[cols.old]
v_new == row[cols.new]
v_start == row[cols.start]
start_date == safe_parse_date(v_start)
days_old == parse_schedule_days(v_old)
days_new == parse_schedule_days(v_new)

\* the test with the old schedule left out of it
row_is_blank_new_start(o, n, st) == n.t = "none" /\ st.t = "none"

\* line 300: v_old is None and v_new is None and v_start is None
row_is_blank(o, n, st) == o.t = "none" /\ n.t = "none" /\ st.t = "none"

\* the branches of the row loop's body, lines 300-312
RowBlank_when == AtRow /\ row_is_blank(v_old, v_new, v_start)
RowBadDate_when == AtRow /\ ~row_is_blank(v_old, v_new, v_start) /\ ~start_date.ok
RowParsed == AtRow /\ ~row_is_blank(v_old, v_new, v_start) /\ start_date.ok
RowBadSchedule_when == RowParsed /\ ~(days_old.ok /\ days_new.ok)
RowCompute_when == RowParsed /\ days_old.ok /\ days_new.ok

RowLogged(outcome) ==
    rowlog' = Append(rowlog, [sheet |-> SheetIdx(sname), r |-> ri, outcome |-> outcome,
                              before |-> row])

RowStep ==
    /\ ri' = ri + 1
    /\ UNCHANGED <<sheet_names, extra_holidays, pc, target_sheets, years, holiday_set,
                   updated_any, logs, si, header_row, header_map, cols, wb0, run, wb1,
                   logs1, pvars, cvars>>

\* lines 296-301: the three input cells are all None
RowBlank ==
    /\ RowBlank_when
    /\ RowLogged("blank")
    /\ RowStep
    /\ UNCHANGED <<wb, processed, errors>>

\* lines 303-306: the start date does not parse
RowBadDate ==
    /\ RowBadDate_when
    /\ errors' = errors + 1
    /\ RowLogged("error")
    /\ RowStep
    /\ UNCHANGED <<wb, processed>>

\* the row loop is left at the row whose schedule does not parse
RowBadSchedule_break ==
    /\ RowBadSchedule_when
    /\ errors' = errors + 1
    /\ RowLogged("error")
    /\ ri' = max_row(ws) - header_row + 1
    /\ UNCHANGED <<wb, processed, sheet_names, extra_holidays, pc, target_sheets, years,
                   holiday_set, updated_any, logs, si, header_row, header_map, cols, wb0,
                   run, wb1, logs1, pvars, cvars>>

\* lines 308-312: a schedule does not parse
RowBadSchedule ==
    /\ RowBadSchedule_when
    /\ errors' = errors + 1
    /\ RowLogged("error")
    /\ RowStep
    /\ UNCHANGED <<wb, processed>>

\* due = old - new with the operands exchanged
due_swapped(old, new) == new - old

\* lines 321 and 330: due = old - new
due_of(old, new) == old - new

\* the month's start is used whatever the start date
calc_start_month(sd, m_start) == m_start

\* lines 318 and 327: calc_start = max(start_date, m_start)
calc_start_of(sd, m_start) == IF sd >= m_start THEN sd ELSE m_start

\* lines 314-321 and 323-330: the counts of one month for a start date
month_counts(sd, y, m, d_old, d_new, holidays) ==
    LET m_start == month_bounds(y, m)[1]
        m_end == month_bounds(y, m)[2]
    IN  IF sd > m_end
        THEN [old |-> 0, new |-> 0, due |-> 0]
        ELSE LET calc_start == calc_start_of(sd, m_start)
                 old == count_workdays(calc_start, m_end, d_old, holidays)
                 new == count_workdays(calc_start, m_end, d_new, holidays)
             IN  [old |-> old, new |-> new, due |-> due_of(old, new)]

\* line 332: total = due_1 + due_2
total_of(due_1, due_2) == due_1 + due_2

\* lines 334-342: the seven writes, in the code's order
write_row(rw, c, k1, k2, total) ==
    LET w1 == [rw EXCEPT ![c.old_1] = IntV(k1.old)]
        w2 == [w1 EXCEPT ![c.new_1] = IntV(k1.new)]
        w3 == [w2 EXCEPT ![c.due_1] = IntV(k1.due)]
        w4 == [w3 EXCEPT ![c.old_2] = IntV(k2.old)]
        w5 == [w4 EXCEPT ![c.new_2] = IntV(k2.new)]
        w6 == [w5 EXCEPT ![c.due_2] = IntV(k2.due)]
    IN  [w6 EXCEPT ![c.total] = IntV(total)]

\* lines 314-344: the row is computed and written
RowCompute ==
    /\ RowCompute_when
    /\ \E sd \in {start_date.d}, d_old \in {days_old.days}, d_new \in {days_new.days},
          ym \in {sheet_ym} :
       \E nm \in {next_month(ym.m, ym.y)} :
       \E k1 \in {month_counts(sd, ym.y, ym.m, d_old, d_new, holiday_set)},
          k2 \in {month_counts(sd, nm.y, nm.m, d_old, d_new, holiday_set)} :
       \E total \in {total_of(k1.due, k2.due)} :
          wb' = [wb EXCEPT ![SheetIdx(sname)].rows[ri] = write_row(@, cols, k1, k2, total)]
    /\ processed' = processed + 1
    /\ RowLogged("ok")
    /\ RowStep
    /\ UNCHANGED errors

SheetDone_when == pc = "row" /\ header_row + ri > max_row(ws)

\* lines 346-347: the sheet's summary line
SheetDone ==
    /\ SheetDone_when
    /\ logs' = Append(logs, LogLine("OK", sname, processed, errors))
    /\ updated_any' = TRUE
    /\ NextSheet
    /\ UNCHANGED wb

Finish_when == pc = "sheet" /\ si > Len(target_sheets)

\* lines 349-354: the warning when nothing was updated, and the return
Finish ==
    /\ Finish_when
    /\ logs' = IF ~updated_any THEN Append(logs, LogLine("AVISO", <<>>, 0, 0)) ELSE logs
    /\ pc' = "done"
    /\ UNCHANGED <<wb, sheet_names, extra_holidays, target_sheets, years, holiday_set,
                   updated_any, si, header_row, header_map, cols, processed, errors, ri,
                   wb0, rowlog, run, wb1, logs1, pvars, cvars>>

\* lines 352-354 and 216-217: the workbook that load_workbook reads from the
\* bytes wb.save wrote: a cell that held a date is read as the datetime of
\* that day, any other cell as it was
load_workbook(saved) ==
    [i \in 1..Len(saved) |->
        [saved[i] EXCEPT !.rows =
            [r \in 1..Len(@) |->
                [c \in 1..Len(@[r]) |->
                    IF @[r][c].t = "date" THEN DateTimeV(@[r][c].n) ELSE @[r][c]]]]]

\* process_workbook is called again on the bytes it returned, with the same
\* sheet_names and extra_holidays
Rerun ==
    /\ pc = "done"
    /\ run = 1
    /\ run' = 2
    /\ wb1' = wb
    /\ wb' = load_workbook(wb)
    /\ logs1' = logs
    /\ rowlog' = <<>>
    /\ pc' = "start"
    /\ UNCHANGED <<sheet_names, extra_holidays, target_sheets, years, holiday_set,
                   updated_any, logs, si, header_row, header_map, cols, processed,
                   errors, ri, wb0, pvars, cvars>>

----------------------------------------------------------------------------
(* Calls of the pure functions *)

\* p_out = parse_schedule_days(" ".join(p_words))
ParseCall ==
    /\ p_pc = "call"
    /\ p_out' = parse_schedule_days(Text(Join(p_words)))
    /\ p_pc' = "ret"
    /\ UNCHANGED <<wbvars, cvars, p_words>>

\* c_out = count_workdays(start, end, working_days, holiday_set)
CountCall ==
    /\ c_pc = "call"
    /\ c_out' = count_workdays(c_args.start, c_args.end, c_args.working_days,
                               c_args.holiday_set)
    /\ c_pc' = "ret"
    /\ UNCHANGED <<wbvars, pvars, c_args>>

----------------------------------------------------------------------------
(* Inputs *)

\* the weekday tokens, in upper, lower and mixed case
TokenWords ==
    {tSEG, tTER, tQUA, tQUI, tSEX, tSAB, tSAB2, tDOM,
     <<"s", "e", "g">>, <<"s", "á", "b">>, <<"D", "o", "m">>}

\* the words that follow
Vocabulary == {tTER, <<"s", "á", "b">>, <<"a">>, <<"E">>, tFOLGA, <<"f", "o", "l", "g", "a">>}

\* the schedule texts, as sequences of words: nothing, a token or "X A Y",
\* followed by at most MaxWords words
WordSeqs ==
    {h \o t :
        h \in {<<>>} \cup {<<x>> : x \in TokenWords}
                \cup {<<x, <<"A">>, y>> : x \in TokenWords, y \in TokenWords},
        t \in UNION {[1..n -> Vocabulary] : n \in 0..MaxWords}}

\* the dates count_workdays is called on
WindowBase == date(2026, 4, 17)
Window == WindowBase..(WindowBase + MaxSpan)

CountArgs ==
    [start : Window, end : Window, working_days : SUBSET (0..6),
     holiday_set : {{}} \cup {{d} : d \in Window}]

\* sheet names
n0126 == <<"0", "1", ".", "2", "0", "2", "6">>
n1226 == <<"1", "2", ".", "2", "0", "2", "6">>
n0226 == <<"2", ".", "2", "0", "2", "6">>
n1326 == <<"1", "3", ".", "2", "0", "2", "6">>
nResumo == <<"R", "e", "s", "u", "m", "o">>
nAbsent == <<"0", "3", ".", "2", "0", "2", "6">>

sSEGaDOM == Join(<<tSEG, <<"A">>, tDOM>>)
sSEGaSEX == Join(<<tSEG, <<"A">>, tSEX>>)
sSEGaSAB == Join(<<tSEG, <<"A">>, tSAB2>>)
sFOLGA_DOM == Join(<<tFOLGA, tDOM>>)
s_seg_a_sex == Join(<<<<"s", "e", "g">>, <<"a">>, <<"s", "e", "x">>>>)
sND == <<"N", "/", "D">>

\* the kinds of data rows: the old schedule, the new schedule, its start
RowKinds ==
    << [old |-> Text(sSEGaDOM), new |-> Text(sSEGaSEX), start |-> DateV(date(2026, 1, 15))],
       [old |-> None, new |-> None, start |-> None],
       [old |-> Text(sFOLGA_DOM), new |-> Text(s_seg_a_sex),
        start |-> Text(<<"3", "1", "/", "1", "2", "/", "2", "0", "2", "6">>)],
       [old |-> Text(sSEGaSEX), new |-> None, start |-> None],
       [old |-> Text(sSEGaDOM), new |-> Text(sND), start |-> DateV(date(2026, 12, 1))],
       [old |-> None, new |-> Text(<<" ">>), start |-> Text(<<" ", " ">>)],
       [old |-> Text(sSEGaSEX), new |-> Text(sSEGaSAB),
        start |-> DateTimeV(date(2026, 1, 31))],
       [old |-> Text(sSEGaDOM), new |-> Text(sSEGaSEX), start |-> Text(sND)] >>

\* the members of a set of numbers in ascending order
RECURSIVE Ascending(_)
Ascending(S) ==
    IF S = {} THEN <<>>
    ELSE LET x == CHOOSE a \in S : \A b \in S : a <= b
         IN  <<x>> \o Ascending(S \ {x})

\* the row lists of a sheet: selections of row kinds (rows do not read one
\* another, so neither their order nor a repetition adds a case)
RowSelections ==
    {Ascending(S) : S \in {T \in SUBSET (1..Len(RowKinds)) : Cardinality(T) <= MaxRows}}

\* what an output cell holds before the run
Stale == IntV(99)

\* the header rows of the model for a sheet of month m of year y
HeaderKinds(m, y) ==
    LET nm == next_month(m, y)
        old == old_scale_header(m, y)
    IN  << [hrow |-> 1,
            header |-> <<"NOME", old, H_NEW, H_START, h_old(m, y), h_new(m, y),
                         h_due(m, y), h_old(nm.m, nm.y), h_new(nm.m, nm.y),
                         h_due(nm.m, nm.y), h_total>>],
           [hrow |-> 3, header |-> <<old, RAW_NEW, H_START>>],
           [hrow |-> 2,
            header |-> <<H_START, "", old, H_NEW, h_due(m, y), RAW_TOTAL,
                         h_new(nm.m, nm.y)>>],
           [hrow |-> 1, header |-> <<H_NEW, H_START, h_total>>],
           [hrow |-> 1, header |-> <<old, H_NEW, h_total>>],
           [hrow |-> HeaderScanRows + 1, header |-> <<old, H_NEW, H_START>>] >>

\* a data row under a header: the three inputs in their columns, nothing
\* under an empty header cell, a stale value elsewhere
MkRow(header, m, y, k) ==
    [c \in 1..Len(header) |->
        LET key == NormHeader(header[c])
        IN  CASE key = old_scale_header(m, y) -> k.old
              [] key = H_NEW -> k.new
              [] key = H_START -> k.start
              [] key = "" -> None
              [] OTHER -> Stale]

MkSheet(name, m, y, hk, sel) ==
    LET h == HeaderKinds(m, y)[hk]
    IN  [name |-> name, hrow |-> h.hrow, header |-> h.header,
         rows |-> [i \in 1..Len(sel) |-> MkRow(h.header, m, y, RowKinds[sel[i]])]]

ExtraSets == {{}, {date(2026, 1, 20)}, {date(2027, 1, 6)}}

\* workbooks of one sheet
OneSheetBooks ==
    {<<MkSheet(nm, parse_sheet_month_year(nm).m, parse_sheet_month_year(nm).y, hk, sel)>> :
        nm \in {n0126, n1226}, hk \in 1..6, sel \in RowSelections}

\* the sheets of the workbooks of several sheets
FewSheets ==
    {MkSheet(n0126, 1, 2026, 2, <<1>>), MkSheet(n0126, 1, 2026, 4, <<1>>),
     MkSheet(n1226, 12, 2026, 3, <<3>>), MkSheet(n1226, 12, 2026, 6, <<3>>),
     MkSheet(n0226, 2, 2026, 1, <<7>>), MkSheet(n1326, 1, 2026, 1, <<1>>),
     MkSheet(nResumo, 1, 2026, 2, <<1>>)}

\* workbooks of several sheets: the names of a workbook's sheets differ
ManySheetBooks ==
    {b \in UNION {[1..n -> FewSheets] : n \in 1..MaxSheets} :
        \A i, j \in 1..Len(b) : b[i].name = b[j].name => i = j}

----------------------------------------------------------------------------
(* Specifications *)

IdlePure ==
    /\ p_words = <<>> /\ p_pc = "idle" /\ p_out = NoDays
    /\ c_args = [start |-> 0, end |-> 0, working_days |-> {}, holiday_set |-> {}]
    /\ c_pc = "idle" /\ c_out = 0

WbLocals(state) ==
    /\ pc = state
    /\ target_sheets = <<>> /\ years = {} /\ holiday_set = {}
    /\ updated_any = FALSE /\ logs = <<>> /\ si = 0
    /\ header_row = 0 /\ header_map = NoMap /\ cols = NoCols
    /\ processed = 0 /\ errors = 0 /\ ri = 0
    /\ rowlog = <<>> /\ run = 1 /\ wb1 = <<>> /\ logs1 = <<>>

IdleWb ==
    /\ wb = <<>> /\ wb0 = <<>> /\ sheet_names = <<>> /\ extra_holidays = {}
    /\ WbLocals("idle")

\* process_workbook is called on a workbook
Init ==
    /\ \/ /\ wb \in OneSheetBooks
          /\ sheet_names = <<>>
          /\ extra_holidays \in ExtraSets
       \/ /\ wb \in ManySheetBooks
          /\ sheet_names \in {<<>>, <<nAbsent>> \o sheetnames}
          /\ extra_holidays = {}
    /\ wb0 = wb
    /\ WbLocals("start")
    /\ IdlePure

Next ==
    \/ Start
    \/ SheetMissing
    \/ SheetIgnored
    \/ HeaderNotFound
    \/ OldColumnMissing
    \/ SheetOpen
    \/ RowBlank
    \/ RowBadDate
    \/ RowBadSchedule
    \/ RowCompute
    \/ SheetDone
    \/ Finish

Spec == Init /\ [][Next]_vars

\* process_workbook is called, and called again on what it returned
NextTwice == Next \/ Rerun
SpecTwice == Init /\ [][NextTwice]_vars

\* parse_schedule_days is called on a text
InitParse ==
    /\ IdleWb
    /\ p_words \in WordSeqs /\ p_pc = "call" /\ p_out = NoDays
    /\ c_args = [start |-> 0, end |-> 0, working_days |-> {}, holiday_set |-> {}]
    /\ c_pc = "idle" /\ c_out = 0
NextParse == ParseCall
SpecParse == InitParse /\ [][NextParse]_vars

\* count_workdays is called on a range of dates
InitCount ==
    /\ IdleWb
    /\ p_words = <<>> /\ p_pc = "idle" /\ p_out = NoDays
    /\ c_args \in CountArgs /\ c_pc = "call" /\ c_out = 0
NextCount == CountCall
SpecCount == InitCount /\ [][NextCount]_vars

----------------------------------------------------------------------------
(* What the claims speak of *)

\* the number of dates d, start <= d <= end, whose weekday is in W and which
\* are not in H
WorkdaysIn(start, end, W, H) ==
    Cardinality({d \in start..end : weekday(d) \in W /\ d \notin H})

\* the weekday a token names: 0 = SEG ... 6 = DOM, SAB and SÁB both 5
Week == <<tSEG, tTER, tQUA, tQUI, tSEX, tSAB, tDOM>>
DayIndex(t) ==
    LET u == IF Upper(t) = tSAB2 THEN tSAB ELSE Upper(t)
    IN  (CHOOSE k \in 1..7 : Week[k] = u) - 1

\* the weekdays whose token occurs in the text
DaysNamedIn(s) ==
    {DayIndex(DOW_TOKENS[k]) : k \in {j \in 1..Len(DOW_TOKENS) : Contains(s, DOW_TOKENS[j])}}

\* the closed interval [a..b] of weekdays, around the end of the week if a > b
WeekInterval(a, b) ==
    {d \in 0..6 : IF a <= b THEN a <= d /\ d <= b ELSE d >= a \/ d <= b}

p_text == Join(p_words)

\* the text is "X A Y" followed by any words, X and Y weekday tokens
IsRangeText ==
    /\ Len(p_words) >= 3
    /\ IsDowToken(Upper(p_words[1]))
    /\ Upper(p_words[2]) = <<"A">>
    /\ IsDowToken(Upper(p_words[3]))

\* the rows of the sheet being processed that the row loop has dealt with
CurEntries == {k \in 1..Len(rowlog) : rowlog[k].sheet = SheetIdx(sname)}
OkEntries == {k \in CurEntries : rowlog[k].outcome = "ok"}

\* the months the run computes for the sheet being processed
Month1 == [m |-> sheet_ym.m, y |-> sheet_ym.y]
Month2 == next_month(sheet_ym.m, sheet_ym.y)

\* the seven output headers of a sheet of month m of year y
OutputHeaders(m, y) ==
    LET nm == next_month(m, y)
    IN  {h_old(m, y), h_new(m, y), h_due(m, y), h_old(nm.m, nm.y), h_new(nm.m, nm.y),
         h_due(nm.m, nm.y), h_total}

\* empty, or a text of blanks only
IsBlankCell(v) == v.t = "none" \/ (v.t = "str" /\ IsBlankText(v.s))

LinesOf(name) == {k \in 1..Len(logs) : logs[k].sheet = name}

----------------------------------------------------------------------------
(* C4 *)

----------------------------------------------------------------------------
(* C5 *)

\* C5: for a text "X A Y" (X, Y weekday tokens in any letter case) that does
\* not contain FOLGA, parse_schedule_days returns the weekdays from X to Y,
\* around the end of the week when X comes after Y; words after Y do not
\* change the result.
C5_RangeParsing ==
    (p_pc = "ret" /\ IsRangeText /\ ~Contains(Upper(p_text), tFOLGA)) =>
        p_out = Days(WeekInterval(DayIndex(p_words[1]), DayIndex(p_words[3])))

\* "X A Y Z" with X after Y in the week and Z a further weekday token
C5_Witness ==
    /\ p_pc = "ret"
    /\ IsRangeText
    /\ ~Contains(Upper(p_text), tFOLGA)
    /\ DayIndex(p_words[1]) > DayIndex(p_words[3])
    /\ Len(p_words) >= 4
    /\ IsDowToken(Upper(p_words[4]))
    /\ DayIndex(p_words[4]) \notin p_out.days

----------------------------------------------------------------------------
(* C6 *)

\* C6: for a text that contains FOLGA and at least one weekday token,
\* parse_schedule_days returns the seven weekdays less the weekdays of all
\* the tokens in the text (SAB and SÁB the same day), also when the text
\* contains " A "; a text with no weekday token gives None, with or without
\* FOLGA.
C6_DayOffParsing ==
    p_pc = "ret" =>
        LET s == Upper(p_text)
        IN  /\ (DaysNamedIn(s) # {} /\ Contains(s, tFOLGA)) =>
                  p_out = Days((0..6) \ DaysNamedIn(s))
            /\ DaysNamedIn(s) = {} => p_out = NoDays

\* FOLGA with a range connective and two tokens, one of them SÁB
C6_Witness ==
    /\ p_pc = "ret"
    /\ Contains(Upper(p_text), tFOLGA)
    /\ Contains(Upper(p_text), <<" ", "A", " ">>)
    /\ Contains(Upper(p_text), tSAB2)
    /\ Cardinality(DaysNamedIn(Upper(p_text))) = 2
    /\ p_out = Days((0..6) \ DaysNamedIn(Upper(p_text)))

----------------------------------------------------------------------------
(* C1 *)

OrigMap(i) == header_map_of(wb0[i])
OrigWidth(i) == Len(wb0[i].header)
Cur == SheetIdx(sname)

\* C1 as claimed: the run creates no column: no header cell is written beyond
\* the original last column and the header map gains no key that was not in
\* the original header row.
C1_NoColumnCreated ==
    /\ \A i \in 1..Len(wb) : Len(wb[i].header) = OrigWidth(i)
    /\ pc = "row" => DOMAIN header_map \subseteq DOMAIN OrigMap(Cur)

\* C1, amended: the run never alters, moves or removes a column that the
\* header row already had: every original header cell keeps its text and
\* every original key keeps its column.  It does create columns: each of the
\* seven output headers of the sheet that the header row lacks is appended
\* once after the last column and added to the header map, and a computed row
\* is written in the created columns as in the ones that existed.
C1_ColumnsKept ==
    /\ \A i \in 1..Len(wb) :
          LET h == wb[i].header
              ym == parse_sheet_month_year(wb[i].name)
          IN  /\ Len(h) >= OrigWidth(i)
              /\ SubSeq(h, 1, OrigWidth(i)) = wb0[i].header
              /\ \A c \in (OrigWidth(i) + 1)..Len(h) :
                    /\ ym.ok
                    /\ h[c] \in OutputHeaders(ym.m, ym.y)
                    /\ NormHeader(h[c]) \notin DOMAIN OrigMap(i)
                    /\ \A c2 \in (OrigWidth(i) + 1)..Len(h) : h[c2] = h[c] => c2 = c
              /\ \A r \in 1..Len(wb[i].rows) : Len(wb[i].rows[r]) = Len(h)
    /\ pc = "row" =>
          /\ \A k \in DOMAIN OrigMap(Cur) : header_map[k] = OrigMap(Cur)[k]
          /\ DOMAIN header_map =
                DOMAIN OrigMap(Cur)
                    \cup {NormHeader(x) : x \in OutputHeaders(Month1.m, Month1.y)}
          /\ header_map = header_map_of(ws)
          /\ \A k \in OkEntries : \A c \in (OrigWidth(Cur) + 1)..Len(ws.header) :
                ws.rows[rowlog[k].r][c].t = "int"

\* a sheet that had some of its output columns and lacked others, with a
\* computed row
C1_Witness ==
    /\ pc = "row"
    /\ Len(ws.header) > OrigWidth(Cur)
    /\ \E c \in 1..OrigWidth(Cur) : ws.header[c] \in OutputHeaders(Month1.m, Month1.y)
    /\ OkEntries # {}

----------------------------------------------------------------------------
(* C2 *)

\* the parsed inputs of a logged row
StartOf(e) == safe_parse_date(e.before[cols.start]).d
OldDaysOf(e) == parse_schedule_days(e.before[cols.old]).days
NewDaysOf(e) == parse_schedule_days(e.before[cols.new]).days

\* the row holds, for month M in columns c_old, c_new and c_due, the counts
\* of the dates from `from` to the month's last day
CountsFrom(rw, e, M, from, c_old, c_new, c_due) ==
    LET m_end == month_bounds(M.y, M.m)[2]
        old == WorkdaysIn(from, m_end, OldDaysOf(e), holiday_set)
        new == WorkdaysIn(from, m_end, NewDaysOf(e), holiday_set)
    IN  rw[c_old] = IntV(old) /\ rw[c_new] = IntV(new) /\ rw[c_due] = IntV(old - new)

\* the day of the month of sd in month M, after the month's end if the month
\* has no such day
DayInMonth(sd, M) ==
    IF ValidDate(M.y, M.m, DayOf(sd))
    THEN date(M.y, M.m, DayOf(sd))
    ELSE month_bounds(M.y, M.m)[2] + 1

\* the later of sd and the first day of month M
LaterOf(sd, M) ==
    IF sd >= month_bounds(M.y, M.m)[1] THEN sd ELSE month_bounds(M.y, M.m)[1]

\* C2 as claimed: the counts of a month run from the day of the month of the
\* stored start date, taken in that month, to the month's last day, and are
\* 0 when the month has no such day.
C2_DayOfMonthStart ==
    pc = "row" =>
        \A k \in OkEntries :
            LET e == rowlog[k]
                rw == ws.rows[e.r]
            IN  /\ CountsFrom(rw, e, Month1, DayInMonth(StartOf(e), Month1),
                              cols.old_1, cols.new_1, cols.due_1)
                /\ CountsFrom(rw, e, Month2, DayInMonth(StartOf(e), Month2),
                              cols.old_2, cols.new_2, cols.due_2)

\* C2, amended: the counts of a month run from the later of the stored start
\* date itself (its month and year kept) and the month's first day, to the
\* month's last day; they are 0 when the stored start date is after the
\* month's last day.  Stored start 2026-01-15 and month 02.2026 count from
\* 2026-02-01 to 2026-02-28.
C2_StoredDateStart ==
    pc = "row" =>
        \A k \in OkEntries :
            LET e == rowlog[k]
                rw == ws.rows[e.r]
            IN  /\ CountsFrom(rw, e, Month1, LaterOf(StartOf(e), Month1),
                              cols.old_1, cols.new_1, cols.due_1)
                /\ CountsFrom(rw, e, Month2, LaterOf(StartOf(e), Month2),
                              cols.old_2, cols.new_2, cols.due_2)
                /\ StartOf(e) > month_bounds(Month1.y, Month1.m)[2] =>
                      rw[cols.old_1] = IntV(0) /\ rw[cols.new_1] = IntV(0)
                /\ StartOf(e) > month_bounds(Month2.y, Month2.m)[2] =>
                      rw[cols.old_2] = IntV(0) /\ rw[cols.new_2] = IntV(0)

\* a row whose start date lies inside the sheet's month, after its first day
C2_Witness ==
    /\ pc = "row"
    /\ \E k \in OkEntries :
          /\ StartOf(rowlog[k]) > month_bounds(Month1.y, Month1.m)[1]
          /\ StartOf(rowlog[k]) <= month_bounds(Month1.y, Month1.m)[2]
          /\ ws.rows[rowlog[k].r][cols.old_1].n > 0
          /\ ws.rows[rowlog[k].r][cols.old_2].n > ws.rows[rowlog[k].r][cols.old_1].n

----------------------------------------------------------------------------
(* C3 *)

\* C3: for every month the run counts working days in, the month after a
\* December sheet's included, every national holiday of the month's year is
\* in the holiday set.
C3_HolidayYears ==
    (pc = "row" /\ OkEntries # {}) =>
        BrazilHolidays(Month1.y) \cup BrazilHolidays(Month2.y) \subseteq holiday_set

----------------------------------------------------------------------------
(* C7 *)

\* C7: in every computed row, for both months the written due is the written
\* old count less the written new count, both counts are integers >= 0, and
\* the written total is the sum of the two dues.
C7_Reconciliation ==
    pc = "row" =>
        \A k \in OkEntries :
            LET rw == ws.rows[rowlog[k].r]
                outs == {cols.old_1, cols.new_1, cols.due_1, cols.old_2, cols.new_2,
                         cols.due_2, cols.total}
            IN  /\ \A c \in outs : rw[c].t = "int"
                /\ rw[cols.old_1].n >= 0 /\ rw[cols.new_1].n >= 0
                /\ rw[cols.old_2].n >= 0 /\ rw[cols.new_2].n >= 0
                /\ rw[cols.due_1].n = rw[cols.old_1].n - rw[cols.new_1].n
                /\ rw[cols.due_2].n = rw[cols.old_2].n - rw[cols.new_2].n
                /\ rw[cols.total].n = rw[cols.due_1].n + rw[cols.due_2].n

\* a computed row with a due in each month, one of them negative
C7_Witness ==
    /\ pc = "row"
    /\ \E k \in OkEntries :
          LET rw == ws.rows[rowlog[k].r]
          IN  rw[cols.due_1].n < 0 /\ rw[cols.due_2].n < 0
              /\ rw[cols.total].n = rw[cols.due_1].n + rw[cols.due_2].n

----------------------------------------------------------------------------
(* C8 *)

\* C8 as claimed: a row whose new-schedule and start cells are both blank
\* (empty, or a text of blanks) is skipped silently whatever its old-schedule
\* cell holds: no counter moves and no cell of the row is written.
C8_BlankRowSkip ==
    pc = "row" =>
        \A k \in CurEntries :
            LET e == rowlog[k]
            IN  (IsBlankCell(e.before[cols.new]) /\ IsBlankCell(e.before[cols.start])) =>
                    e.outcome = "blank" /\ ws.rows[e.r] = e.before

\* C8, amended: a row is skipped silently (no counter moves, no cell of the
\* row is written) when its old-schedule, new-schedule and start cells are
\* all three empty.  A row whose new-schedule and start cells are blank but
\* whose old-schedule cell is not empty, or whose blank cells hold a text of
\* blanks, is counted as an error: the error counter moves by one, the
\* processed counter does not, and no cell of the row is written.
C8_EmptyRowSkip ==
    pc = "row" =>
        /\ errors = Cardinality({k \in CurEntries : rowlog[k].outcome = "error"})
        /\ processed = Cardinality(OkEntries)
        /\ \A k \in CurEntries :
              LET e == rowlog[k]
                  empty == /\ e.before[cols.old].t = "none"
                           /\ e.before[cols.new].t = "none"
                           /\ e.before[cols.start].t = "none"
              IN  /\ empty => e.outcome = "blank" /\ ws.rows[e.r] = e.before
                  /\ (/\ IsBlankCell(e.before[cols.new])
                      /\ IsBlankCell(e.before[cols.start])
                      /\ ~empty) =>
                        e.outcome = "error" /\ ws.rows[e.r] = e.before

\* a sheet with a row of three empty cells and a row with an old schedule
\* only, both dealt with
C8_Witness ==
    /\ pc = "row"
    /\ \E k \in CurEntries :
          /\ rowlog[k].outcome = "blank"
          /\ rowlog[k].before[cols.old].t = "none"
    /\ \E k \in CurEntries :
          /\ rowlog[k].before[cols.old].t = "str"
          /\ rowlog[k].before[cols.new].t = "none"
          /\ rowlog[k].before[cols.start].t = "none"
          /\ rowlog[k].outcome = "error"
    /\ errors = 1 /\ processed = 0

----------------------------------------------------------------------------
(* C9 *)

\* the sheet of the workbook given to the run that has this name
Orig(name) == wb0[CHOOSE i \in 1..Len(wb0) : wb0[i].name = name]

HasOldColumn(name) ==
    LET ym == parse_sheet_month_year(name)
    IN  NormHeader(old_scale_header(ym.m, ym.y)) \in DOMAIN header_map_of(Orig(name))

\* the kind of the one log line a sheet of the workbook gets
LineKind(name) ==
    IF ~parse_sheet_month_year(name).ok THEN "IGNORADO"
    ELSE IF ~header_found(Orig(name)) THEN "ERRO_CABECALHO"
    ELSE IF ~HasOldColumn(name) THEN "ERRO_COLUNA"
    ELSE "OK"

\* the rows of sheet i of the workbook that the row loop dealt with, by outcome
RowsWith(i, outcome) ==
    {rowlog[k].r : k \in {j \in 1..Len(rowlog) :
                            rowlog[j].sheet = i /\ rowlog[j].outcome = outcome}}

\* a statement of process_workbook is about to be executed
Running ==
    \/ Start_when
    \/ SheetMissing_when \/ SheetIgnored_when \/ HeaderNotFound_when
    \/ OldColumnMissing_when \/ SheetOpen_when
    \/ RowBlank_when \/ RowBadDate_when \/ RowBadSchedule_when \/ RowCompute_when
    \/ SheetDone_when
    \/ Finish_when

----------------------------------------------------------------------------
(* C10 *)

\* C10: a second run on the output of the first, with the same sheet
\* selection and the same extra holidays, adds no column and changes no
\* cell of the workbook it loaded at any point: every cell keeps the value
\* the first run left in it (a date read back as the datetime of the same
\* day); and it ends with the same per-sheet counts in its log.
C10_Idempotent ==
    run = 2 =>
        /\ \A i \in 1..Len(wb) : Len(wb[i].header) = Len(wb1[i].header)
        /\ wb = load_workbook(wb1)
        /\ \A i \in 1..Len(wb) : \A r \in 1..Len(wb[i].rows) :
              \A c \in 1..Len(wb[i].rows[r]) :
                 wb1[i].rows[r][c].t # "date" => wb[i].rows[r][c] = wb1[i].rows[r][c]
        /\ pc = "done" => logs = logs1

\* a second run has ended on a workbook in which the first run created
\* columns and computed a row
C10_Witness ==
    /\ run = 2
    /\ pc = "done"
    /\ \E i \in 1..Len(wb) : Len(wb1[i].header) > Len(wb0[i].header)
    /\ \E k \in 1..Len(logs) : logs[k].kind = "OK" /\ logs[k].processed >= 1

----------------------------------------------------------------------------
(* C11 *)

\* the three input cells of a logged row are all empty
EmptyInputs(e) ==
    /\ e.before[cols.old].t = "none"
    /\ e.before[cols.new].t = "none"
    /\ e.before[cols.start].t = "none"

\* a logged row that is not skipped silently and whose start date, old
\* schedule or new schedule does not parse
FailingEntry(e) ==
    /\ ~EmptyInputs(e)
    /\ \/ ~safe_parse_date(e.before[cols.start]).ok
       \/ ~parse_schedule_days(e.before[cols.old]).ok
       \/ ~parse_schedule_days(e.before[cols.new]).ok

\* the row as the workbook given to the run had it, with an empty cell in
\* each column the run created
GivenRow(r) ==
    [c \in 1..Len(ws.header) |->
        IF c <= OrigWidth(Cur) THEN wb0[Cur].rows[r][c] ELSE None]

\* the output columns of the sheet being processed
OutputCols ==
    {cols.old_1, cols.new_1, cols.due_1, cols.old_2, cols.new_2, cols.due_2, cols.total}

\* the logged row holds what its own cells alone give: the counts of both
\* months and their total in the output columns, every other cell as before
ComputedAlone(e) ==
    LET rw == ws.rows[e.r]
    IN  /\ CountsFrom(rw, e, Month1, LaterOf(StartOf(e), Month1),
                      cols.old_1, cols.new_1, cols.due_1)
        /\ CountsFrom(rw, e, Month2, LaterOf(StartOf(e), Month2),
                      cols.old_2, cols.new_2, cols.due_2)
        /\ rw[cols.total] = IntV(rw[cols.due_1].n + rw[cols.due_2].n)
        /\ \A c \in (1..Len(rw)) \ OutputCols : rw[c] = e.before[c]

\* C11: a row that is not skipped silently and whose start date, old schedule
\* or new schedule does not parse moves the sheet's error counter by exactly
\* one and has no cell written; every row below the header is evaluated once,
\* in order, failing rows before it or not, on the cells the workbook was
\* given with, and a row that parses holds the result its own cells give;
\* when the sheet is finished, processed + errors + silently skipped rows is
\* the number of rows below the header.
C11_RowErrorIsolation ==
    pc = "row" =>
        /\ Cardinality(CurEntries) = ri - 1
        /\ {rowlog[k].r : k \in CurEntries} = 1..(ri - 1)
        /\ \A k1, k2 \in CurEntries : k1 < k2 => rowlog[k1].r < rowlog[k2].r
        /\ errors = Cardinality({k \in CurEntries : FailingEntry(rowlog[k])})
        /\ processed = Cardinality(OkEntries)
        /\ \A k \in CurEntries :
              LET e == rowlog[k]
              IN  /\ e.before = GivenRow(e.r)
                  /\ FailingEntry(e) => e.outcome = "error" /\ ws.rows[e.r] = e.before
                  /\ EmptyInputs(e) => e.outcome = "blank" /\ ws.rows[e.r] = e.before
                  /\ (~FailingEntry(e) /\ ~EmptyInputs(e)) =>
                        e.outcome = "ok" /\ ComputedAlone(e)
        /\ \A r \in ri..Len(ws.rows) : ws.rows[r] = GivenRow(r)
        /\ SheetDone_when =>
              processed + errors
                  + Cardinality({k \in CurEntries : rowlog[k].outcome = "blank"})
                = max_row(ws) - header_row

\* a finished sheet whose first row failed on a schedule, with a valid start
\* date, and whose second row was computed
C11_Witness ==
    /\ pc = "row"
    /\ SheetDone_when
    /\ errors = 1 /\ processed = 1
    /\ \E k1, k2 \in CurEntries :
          /\ rowlog[k1].r < rowlog[k2].r
          /\ rowlog[k1].outcome = "error"
          /\ safe_parse_date(rowlog[k1].before[cols.start]).ok
          /\ ~parse_schedule_days(rowlog[k1].before[cols.new]).ok
          /\ ws.rows[rowlog[k1].r] = rowlog[k1].before
          /\ rowlog[k2].outcome = "ok"
          /\ ws.rows[rowlog[k2].r][cols.total].t = "int"

=============================================================================
